---- MODULE Spec2Model ----
(***************************************************************************)
(* The Ansible module of homelab-daggerverse: galaxy_install and           *)
(* run_playbook build a container pipeline (a list of builder steps) and   *)
(* run_playbook awaits its stdout, which makes the engine evaluate the     *)
(* steps in order.  Strings are TLA+ strings, argument lists are sequences *)
(* of strings, a pipeline is a sequence of step records.                   *)
(***************************************************************************)
EXTENDS Naturals, Sequences, FiniteSets, TLC

\* ---------------------------------------------------------------- bounds
\* longest extra_vars list, longest tags list, largest key plaintext (bytes)
MaxVars == 2
MaxTags == 2
MaxKeySize == 2

\* ------------------------------------------------------- input domains
\* The code validates none of its arguments, so the domains hold ordinary
\* values and values that read like the flags the code itself emits.
Directories == {"test-data", "example-data"}
Playbooks == {"playbooks/simple.yml", "-i"}
Inventories == {"", "inventory/hosts.ini", "--extra-vars"}
VarEntries == {"test_var=hello_world", "--tags"}
TagEntries == {"test", "a,b"}
RequirementsFiles == {"", "requirements.yml"}
\* an SSH private key is a secret with a non-empty plaintext
KeySizes == 1..MaxKeySize

SeqsUpTo(S, n) == UNION {[1..k -> S] : k \in 0..n}

\* Optional parameters: Python's None, or a value.
None == [given |-> FALSE, val |-> <<>>]
Some(v) == [given |-> TRUE, val |-> v]
NoSecret == [given |-> FALSE, size |-> 0]
Secret(n) == [given |-> TRUE, size |-> n]

OptLists(S, n) == {None} \cup {Some(l) : l \in SeqsUpTo(S, n)}
OptSecrets == {NoSecret} \cup {Secret(n) : n \in KeySizes}

\* `if x:` on a list that may be None: false for None and for []
TruthyList(o) == o.given /\ o.val # <<>>
\* `if ssh_private_key:` on a dagger.Secret that may be None
TruthySecret(s) == s.given

\* ------------------------------------------------------ builder steps
Step(op, args, secret) == [op |-> op, args |-> args, secret |-> secret]
from_(image) == Step("from_", <<image>>, 0)
with_mounted_directory(path, directory) ==
    Step("with_mounted_directory", <<path, directory>>, 0)
with_workdir(path) == Step("with_workdir", <<path>>, 0)
with_exec(argv) == Step("with_exec", argv, 0)
with_mounted_secret(path, s) == Step("with_mounted_secret", <<path>>, s.size)

\* ------------------------------------------------------ galaxy_install
DefaultRequirementsFile == "requirements.yml"

\* fault variant: the working directory is not set before the install
galaxy_install_NoWorkdir(directory, requirements_file) ==
    << from_("alpine/ansible:latest"),
       with_mounted_directory("/work", directory),
       with_exec(<<"ansible-galaxy", "collection", "install", "-r",
                   requirements_file>>) >>

galaxy_install(directory, requirements_file) ==
    << from_("alpine/ansible:latest"),
       with_mounted_directory("/work", directory),
       with_workdir("/work"),
       with_exec(<<"ansible-galaxy", "collection", "install", "-r",
                   requirements_file>>) >>

\* ------------------------------------------------ run_playbook: command
\* ",".join(tags)
RECURSIVE JoinFrom(_, _, _)
JoinFrom(acc, tags, i) ==
    IF i > Len(tags) THEN acc
    ELSE JoinFrom(acc \o "," \o tags[i], tags, i + 1)

Join(tags) == IF tags = <<>> THEN "" ELSE JoinFrom(tags[1], tags, 2)

\* fault variant: the inventory flag is written whether or not one was given
AddInventory_Always(c, inventory) == c \o <<"-i", inventory>>

AddInventory(c, inventory) ==
    IF inventory # "" THEN c \o <<"-i", inventory>> ELSE c

RECURSIVE ExtendVars(_, _, _)
ExtendVars(c, vars, i) ==
    IF i > Len(vars) THEN c
    ELSE ExtendVars(c \o <<"--extra-vars", vars[i]>>, vars, i + 1)

\* fault variant: an entry already written is not written again
RECURSIVE ExtendVarsOnce(_, _, _)
ExtendVarsOnce(c, vars, i) ==
    IF i > Len(vars) THEN c
    ELSE IF \E j \in 1..(i - 1) : vars[j] = vars[i]
         THEN ExtendVarsOnce(c, vars, i + 1)
         ELSE ExtendVarsOnce(c \o <<"--extra-vars", vars[i]>>, vars, i + 1)

AddExtraVars_Once(c, extra_vars) ==
    IF TruthyList(extra_vars) THEN ExtendVarsOnce(c, extra_vars.val, 1) ELSE c

AddExtraVars(c, extra_vars) ==
    IF TruthyList(extra_vars) THEN ExtendVars(c, extra_vars.val, 1) ELSE c

\* fault variant: `if tags is not None` in place of `if tags`
AddTags_IfGiven(c, tags) ==
    IF tags.given THEN c \o <<"--tags", Join(tags.val)>> ELSE c

AddTags(c, tags) ==
    IF TruthyList(tags) THEN c \o <<"--tags", Join(tags.val)>> ELSE c

\* fault variant: the tags group is written before the extra-vars group
BuildCmd_TagsFirst(playbook, inventory, extra_vars, tags) ==
    Append(AddExtraVars(AddTags(AddInventory(<<"ansible-playbook">>, inventory),
                                tags),
                        extra_vars),
           playbook)

BuildCmd(playbook, inventory, extra_vars, tags) ==
    Append(AddTags(AddExtraVars(AddInventory(<<"ansible-playbook">>, inventory),
                                extra_vars),
                   tags),
           playbook)

\* ---------------------------------------------- run_playbook: container
\* fault variant: the requirements file is ignored
BaseContainer_Bare(directory, requirements_file) ==
    << from_("alpine/ansible:latest"),
       with_mounted_directory("/work", directory),
       with_workdir("/work") >>

BaseContainer(directory, requirements_file) ==
    IF requirements_file # ""
    THEN galaxy_install(directory, requirements_file)
    ELSE << from_("alpine/ansible:latest"),
            with_mounted_directory("/work", directory),
            with_workdir("/work") >>

\* fault variant: the copy keeps the mode it was created with
MountSshKey_NoChmod(c, ssh_private_key) ==
    IF TruthySecret(ssh_private_key)
    THEN c \o << with_exec(<<"mkdir", "-p", "/root/.ssh">>),
                 with_mounted_secret("/tmp/ssh_key", ssh_private_key),
                 with_exec(<<"cp", "/tmp/ssh_key", "/root/.ssh/ansible_id_ecdsa">>) >>
    ELSE c

\* fault variant: the staging steps are added whether or not a key was given
MountSshKey_Always(c, ssh_private_key) ==
    c \o << with_exec(<<"mkdir", "-p", "/root/.ssh">>),
            with_mounted_secret("/tmp/ssh_key", ssh_private_key),
            with_exec(<<"cp", "/tmp/ssh_key", "/root/.ssh/ansible_id_ecdsa">>),
            with_exec(<<"chmod", "600", "/root/.ssh/ansible_id_ecdsa">>) >>

MountSshKey(c, ssh_private_key) ==
    IF TruthySecret(ssh_private_key)
    THEN c \o << with_exec(<<"mkdir", "-p", "/root/.ssh">>),
                 with_mounted_secret("/tmp/ssh_key", ssh_private_key),
                 with_exec(<<"cp", "/tmp/ssh_key", "/root/.ssh/ansible_id_ecdsa">>),
                 with_exec(<<"chmod", "600", "/root/.ssh/ansible_id_ecdsa">>) >>
    ELSE c

\* fault variant: the key is staged first, the collections installed after
BuildContainer_StageFirst(directory, ssh_private_key, requirements_file) ==
    LET staged == MountSshKey(BaseContainer(directory, ""), ssh_private_key)
    IN  IF requirements_file # ""
        THEN Append(staged, galaxy_install(directory, requirements_file)[4])
        ELSE staged

BuildContainer(directory, ssh_private_key, requirements_file) ==
    MountSshKey(BaseContainer(directory, requirements_file), ssh_private_key)

\* ------------------------------------------------------------- state
VARIABLES
    pc,         \* "idle", "returned" (a container handed back), "await", "done", "fault"
    call,       \* the arguments of the call in progress
    cmd,        \* run_playbook's argument list
    container,  \* the pipeline built so far
    ip,         \* number of pipeline steps the engine has evaluated
    image,      \* image the container was started from ("" before from_)
    mounts,     \* what is mounted where in the container
    workdir,    \* working directory of the container
    files,      \* files created in the container since the image
    ran,        \* every process run in the container, in order, with its outcome
    result      \* what the call gave its caller: "none", "container", "stdout", "fault"

vars == <<pc, call, cmd, container, ip, image, mounts, workdir, files, ran, result>>

\* `defaulted`: the requirements file was omitted and the default applied
NoCall == [fn |-> "none", directory |-> "", playbook |-> "", inventory |-> "",
           extra_vars |-> None, tags |-> None, ssh_private_key |-> NoSecret,
           requirements_file |-> "", defaulted |-> FALSE]

Init ==
    /\ pc = "idle"
    /\ call = NoCall
    /\ cmd = <<>>
    /\ container = <<>>
    /\ ip = 0
    /\ image = ""
    /\ mounts = {}
    /\ workdir = "/"
    /\ files = {}
    /\ ran = <<>>
    /\ result = "none"

engine == <<ip, image, mounts, workdir, files, ran>>

\* ------------------------------------------------------------- calls
\* run_playbook up to its await: the command and the whole pipeline are built
\* before anything runs (the builder calls only record steps).
run_playbook ==
    /\ pc = "idle"
    /\ \E directory \in Directories, playbook \in Playbooks,
          inventory \in Inventories,
          extra_vars \in OptLists(VarEntries, MaxVars),
          tags \in OptLists(TagEntries, MaxTags),
          ssh_private_key \in OptSecrets,
          requirements_file \in RequirementsFiles :
            /\ call' = [fn |-> "run_playbook", directory |-> directory,
                        playbook |-> playbook, inventory |-> inventory,
                        extra_vars |-> extra_vars, tags |-> tags,
                        ssh_private_key |-> ssh_private_key,
                        requirements_file |-> requirements_file,
                        defaulted |-> FALSE]
            /\ cmd' = BuildCmd(playbook, inventory, extra_vars, tags)
            /\ container' =
                   Append(BuildContainer(directory, ssh_private_key, requirements_file),
                          with_exec(cmd'))
    /\ pc' = "await"
    /\ UNCHANGED <<engine, result>>

\* A direct call of galaxy_install: the container is handed back unevaluated.
\* The requirements file may be omitted (the default applies) or be any string.
GalaxyFiles == {"requirements.yml", "collections.yml", ""}

CallGalaxyInstall ==
    /\ pc = "idle"
    /\ \E directory \in Directories, omitted \in BOOLEAN, given \in GalaxyFiles :
         LET requirements_file == IF omitted THEN DefaultRequirementsFile ELSE given
         IN  /\ call' = [NoCall EXCEPT !.fn = "galaxy_install",
                                       !.directory = directory,
                                       !.requirements_file = requirements_file,
                                       !.defaulted = omitted]
             /\ container' = galaxy_install(directory, requirements_file)
    /\ pc' = "returned"
    /\ result' = "container"
    /\ UNCHANGED <<engine, cmd>>

\* The caller of galaxy_install in the test suite: one more exec, then stdout.
test_galaxy_install ==
    /\ pc = "returned"
    /\ container' = Append(container, with_exec(<<"ansible", "--version">>))
    /\ pc' = "await"
    /\ result' = "none"
    /\ UNCHANGED <<engine, call, cmd>>

\* ------------------------------------------------------------ engine
\* `await container...stdout()` makes the engine evaluate the pipeline, one
\* step after the other, each on the container the previous step left.
Evaluating == pc = "await" /\ ip < Len(container)
NextStep == container[ip + 1]

Mount(path, kind, src, size) ==
    [path |-> path, kind |-> kind, src |-> src, size |-> size]
File(path, kind, mode, size) ==
    [path |-> path, kind |-> kind, mode |-> mode, size |-> size]

Mounted(path) == \E m \in mounts : m.path = path
Exists(path) == \E f \in files : f.path = path

\* the directory that must exist for `path` to be created
Parent(path) == IF path = "/root/.ssh/ansible_id_ecdsa" THEN "/root/.ssh" ELSE "/"

\* mode bits a copy gets: those of its source under the umask in force
CopyModes == {"400", "644"}

\* whether the process can exit 0 on the container as it is
CanSucceed(argv) ==
    CASE argv[1] = "cp"    -> /\ Len(argv) = 3
                              /\ Mounted(argv[2]) \/ Exists(argv[2])
                              /\ Parent(argv[3]) = "/" \/ Exists(Parent(argv[3]))
      [] argv[1] = "chmod" -> Len(argv) = 3 /\ Exists(argv[3])
      [] OTHER             -> TRUE

SizeAt(path) ==
    IF Mounted(path) THEN (CHOOSE m \in mounts : m.path = path).size
    ELSE (CHOOSE f \in files : f.path = path).size

\* the files after the process has exited 0
Effect(argv, mode) ==
    CASE argv[1] = "mkdir" ->
            {f \in files : f.path # argv[3]}
              \cup {File(argv[3], "dir", "755", 0)}
      [] argv[1] = "cp" ->
            {f \in files : f.path # argv[3]}
              \cup {File(argv[3], "file", mode, SizeAt(argv[2]))}
      [] argv[1] = "chmod" ->
            {IF f.path = argv[3] THEN [f EXCEPT !.mode = argv[2]] ELSE f : f \in files}
      [] OTHER -> files

EvalFrom ==
    /\ Evaluating
    /\ NextStep.op = "from_"
    /\ image' = NextStep.args[1]
    /\ mounts' = {}
    /\ files' = {}
    /\ workdir' = "/"
    /\ ip' = ip + 1
    /\ UNCHANGED <<pc, call, cmd, container, ran, result>>

EvalMountedDirectory ==
    /\ Evaluating
    /\ NextStep.op = "with_mounted_directory"
    /\ mounts' = {m \in mounts : m.path # NextStep.args[1]}
                    \cup {Mount(NextStep.args[1], "directory", NextStep.args[2], 0)}
    /\ ip' = ip + 1
    /\ UNCHANGED <<pc, call, cmd, container, image, workdir, files, ran, result>>

EvalWorkdir ==
    /\ Evaluating
    /\ NextStep.op = "with_workdir"
    /\ workdir' = NextStep.args[1]
    /\ ip' = ip + 1
    /\ UNCHANGED <<pc, call, cmd, container, image, mounts, files, ran, result>>

EvalMountedSecret ==
    /\ Evaluating
    /\ NextStep.op = "with_mounted_secret"
    /\ mounts' = {m \in mounts : m.path # NextStep.args[1]}
                    \cup {Mount(NextStep.args[1], "secret", "", NextStep.secret)}
    /\ ip' = ip + 1
    /\ UNCHANGED <<pc, call, cmd, container, image, workdir, files, ran, result>>

Ran(ok) == [step |-> ip + 1, argv |-> NextStep.args, ok |-> ok]

\* the process exits 0
EvalExec ==
    /\ Evaluating
    /\ NextStep.op = "with_exec"
    /\ CanSucceed(NextStep.args)
    /\ \E mode \in CopyModes : files' = Effect(NextStep.args, mode)
    /\ ran' = Append(ran, Ran(TRUE))
    /\ ip' = ip + 1
    /\ UNCHANGED <<pc, call, cmd, container, image, mounts, workdir, result>>

\* fault variant: a non-zero exit is recorded and the evaluation goes on
EvalExecFail_Continue ==
    /\ Evaluating
    /\ NextStep.op = "with_exec"
    /\ ran' = Append(ran, Ran(FALSE))
    /\ ip' = ip + 1
    /\ UNCHANGED <<pc, call, cmd, container, image, mounts, workdir, files, result>>

\* the process exits non-zero: the engine raises, the await propagates it
EvalExecFail ==
    /\ Evaluating
    /\ NextStep.op = "with_exec"
    /\ ran' = Append(ran, Ran(FALSE))
    /\ pc' = "fault"
    /\ result' = "fault"
    /\ UNCHANGED <<call, cmd, container, ip, image, mounts, workdir, files>>

\* every step evaluated: the last exec's stdout is returned
ReturnStdout ==
    /\ pc = "await"
    /\ ip = Len(container)
    /\ pc' = "done"
    /\ result' = "stdout"
    /\ UNCHANGED <<call, cmd, container, engine>>

Next ==
    \/ run_playbook
    \/ CallGalaxyInstall
    \/ test_galaxy_install
    \/ EvalFrom
    \/ EvalMountedDirectory
    \/ EvalWorkdir
    \/ EvalMountedSecret
    \/ EvalExec
    \/ EvalExecFail
    \/ ReturnStdout

Spec == Init /\ [][Next]_vars

\* ------------------------------------------------------ shared notions
InRunPlaybook == call.fn = "run_playbook"

\* The engine is about to run the last step of run_playbook's pipeline, the
\* ansible-playbook process.
PlaybookRuns == InRunPlaybook /\ pc = "await" /\ ip = Len(container) - 1

\* The engine is about to run the ansible-galaxy process.
GalaxyRuns ==
    /\ Evaluating
    /\ NextStep.op = "with_exec"
    /\ NextStep.args[1] = "ansible-galaxy"

\* The CLI grammar is
\*   ansible-playbook [-i <inventory>] [--extra-vars <kv>]* [--tags <csv>] <playbook>
\* where every option takes exactly one value: read from the left, the options
\* (flags) stand at the even positions before the last element, their values
\* at the odd positions, the playbook at the last position.  A value that
\* merely spells a flag is a value, not a flag.
OptionPositions(c) == {i \in 2..(Len(c) - 1) : i % 2 = 0}
FlagPositions(c, flag) == {i \in OptionPositions(c) : c[i] = flag}

\* the entries of an optional list (none for None)
Entries(o) == IF o.given THEN o.val ELSE <<>>

\* t1,t2,...,tn written from the right
RECURSIVE CsvFrom(_, _)
CsvFrom(tags, k) ==
    IF k = Len(tags) THEN tags[k] ELSE tags[k] \o "," \o CsvFrom(tags, k + 1)

SshDir == "/root/.ssh"
KeyPath == "/root/.ssh/ansible_id_ecdsa"
StagingPath == "/tmp/ssh_key"

\* ---------------------------------------------------------------- C1
\* C1: whatever the playbook, inventory, extra_vars and tags, the command
\* run_playbook emits has the form
\*   ansible-playbook [-i <inventory>] [--extra-vars <kv>]* [--tags <csv>] <playbook>
\* its first element is "ansible-playbook"; then come, in this order, the
\* inventory group (if an inventory is given), one extra-vars pair per entry,
\* the tags group (if there are tags) whose value is the tags joined by commas
\* in input order under a single --tags flag; the playbook is the last element.
C1_CommandForm ==
    InRunPlaybook =>
      LET i == IF call.inventory # "" THEN 1 ELSE 0
          v == Len(Entries(call.extra_vars))
          t == IF Entries(call.tags) # <<>> THEN 1 ELSE 0
          n == Len(cmd)
      IN  /\ n = 2 + 2 * i + 2 * v + 2 * t
          /\ cmd[1] = "ansible-playbook"
          /\ cmd[n] = call.playbook
          /\ i = 1 => cmd[2] = "-i" /\ cmd[3] = call.inventory
          /\ \A k \in 1..v : /\ cmd[2 * i + 2 * k] = "--extra-vars"
                              /\ cmd[2 * i + 2 * k + 1] = call.extra_vars.val[k]
          /\ t = 1 => /\ cmd[n - 2] = "--tags"
                      /\ cmd[n - 1] = CsvFrom(call.tags.val, 1)
                      /\ Cardinality(FlagPositions(cmd, "--tags")) = 1

\* a finished call with an inventory, two extra vars and two tags
C1_Witness ==
    /\ InRunPlaybook
    /\ pc = "done"
    /\ call.inventory # ""
    /\ Len(Entries(call.extra_vars)) = 2
    /\ Len(Entries(call.tags)) = 2
    /\ call.tags.val[1] # call.tags.val[2]

\* ---------------------------------------------------------------- C2
\* the call the state holds, made with tags omitted instead
CmdWithoutTags ==
    BuildCmd(call.playbook, call.inventory, call.extra_vars, None)
ContainerWithoutTags ==
    Append(BuildContainer(call.directory, call.ssh_private_key,
                          call.requirements_file),
           with_exec(CmdWithoutTags))

\* C2: with an empty tags list run_playbook does what it does with tags
\* omitted: whatever the other parameters, the command and the pipeline are
\* those of the call with tags omitted, and the command has no --tags flag.
C2_EmptyTagsAsOmitted ==
    (InRunPlaybook /\ call.tags = Some(<<>>)) =>
        /\ cmd = CmdWithoutTags
        /\ container = ContainerWithoutTags
        /\ FlagPositions(cmd, "--tags") = {}

\* a finished call with tags=[] whose extra vars spell the flag
C2_Witness ==
    /\ InRunPlaybook
    /\ pc = "done"
    /\ call.tags = Some(<<>>)
    /\ \E k \in 1..Len(Entries(call.extra_vars)) : call.extra_vars.val[k] = "--tags"

\* ---------------------------------------------------------------- C3
\* C3: with no inventory (the empty string, the default) the command has no
\* -i flag, whatever the playbook, extra_vars and tags.
C3_NoInventoryFlag ==
    (InRunPlaybook /\ call.inventory = "") => FlagPositions(cmd, "-i") = {}

\* a finished call without inventory, with extra vars and tags, for a
\* playbook whose path spells the flag
C3_Witness ==
    /\ InRunPlaybook
    /\ pc = "done"
    /\ call.inventory = ""
    /\ call.playbook = "-i"
    /\ Entries(call.extra_vars) # <<>>
    /\ Entries(call.tags) # <<>>

\* ---------------------------------------------------------------- C4
\* the number of flags at or before position i
Rank(P, i) == Cardinality({j \in P : j <= i})

\* C4: the command has exactly one --extra-vars flag per entry of extra_vars,
\* each flag is immediately followed by its entry, and the entries stand in
\* input order: the k-th flag is followed by the k-th entry (duplicates kept,
\* nothing merged or dropped).
C4_ExtraVarsInOrder ==
    InRunPlaybook =>
      LET P == FlagPositions(cmd, "--extra-vars")
          entries == Entries(call.extra_vars)
      IN  /\ Cardinality(P) = Len(entries)
          /\ \A i \in P : cmd[i + 1] = entries[Rank(P, i)]

\* a finished call with the same entry twice and an inventory that spells the flag
C4_Witness ==
    /\ InRunPlaybook
    /\ pc = "done"
    /\ Len(Entries(call.extra_vars)) = 2
    /\ call.extra_vars.val[1] = call.extra_vars.val[2]
    /\ call.inventory = "--extra-vars"

\* ---------------------------------------------------------------- C5
\* the successful run of `argv` recorded before pipeline step `before`
RanOkBefore(argv, before) ==
    \E j \in 1..Len(ran) :
        ran[j].argv = argv /\ ran[j].ok /\ ran[j].step < before

GalaxyArgv(file) == <<"ansible-galaxy", "collection", "install", "-r", file>>

\* C5: given a requirements file, run_playbook starts from exactly the
\* container galaxy_install returns for the same directory and file, and
\* whenever the ansible-playbook step runs, the ansible-galaxy install of that
\* file has run before it and exited 0; given none (the empty string), the
\* pipeline starts from the bare image mounted at the workdir and has no
\* ansible-galaxy step.
C5_InstallBeforePlaybook ==
    InRunPlaybook =>
      IF call.requirements_file # ""
      THEN /\ Len(container) >= 5
           /\ SubSeq(container, 1, 4)
                 = galaxy_install(call.directory, call.requirements_file)
           /\ container[4].args = GalaxyArgv(call.requirements_file)
           /\ (PlaybookRuns \/ pc = "done")
                 => RanOkBefore(GalaxyArgv(call.requirements_file), Len(container))
      ELSE /\ Len(container) >= 4
           /\ SubSeq(container, 1, 3)
                 = << [op |-> "from_", args |-> <<"alpine/ansible:latest">>,
                       secret |-> 0],
                      [op |-> "with_mounted_directory",
                       args |-> <<"/work", call.directory>>, secret |-> 0],
                      [op |-> "with_workdir", args |-> <<"/work">>, secret |-> 0] >>
           /\ \A k \in 1..Len(container) :
                 container[k].op = "with_exec"
                   => container[k].args[1] # "ansible-galaxy"
           /\ \A j \in 1..Len(ran) : ran[j].argv[1] # "ansible-galaxy"

\* the playbook is about to run in a container built from a requirements file
C5_Witness ==
    /\ PlaybookRuns
    /\ call.requirements_file # ""
    /\ Len(ran) >= 1

\* ---------------------------------------------------------------- C6
KeyFiles == {f \in files : f.path = KeyPath}

Failed == ran # <<>> /\ ~ran[Len(ran)].ok

\* C7: in run_playbook the first step that exits non-zero aborts the call:
\* nothing runs after it, the call ends in a fault and returns no stdout;
\* there is no retry, no step runs twice, and stdout is returned only when
\* every step has run and exited 0.
C7_FirstFailureAborts ==
    InRunPlaybook =>
        /\ \A j \in 1..(Len(ran) - 1) : ran[j].ok
        /\ \A j, k \in 1..Len(ran) : j < k => ran[j].step < ran[k].step
        /\ Failed => pc = "fault" /\ result = "fault" /\ ~ENABLED Next
        /\ pc = "fault" => Failed /\ result # "stdout"
        /\ result = "stdout" =>
              /\ ip = Len(container)
              /\ \A j \in 1..Len(ran) : ran[j].ok
              /\ \A k \in 1..Len(container) :
                    container[k].op = "with_exec"
                      => Cardinality({j \in 1..Len(ran) : ran[j].step = k}) = 1

\* a step in the middle of a pipeline with key and collections has failed
C7_Witness ==
    /\ InRunPlaybook
    /\ pc = "fault"
    /\ Len(ran) >= 2
    /\ ip + 1 < Len(container)

\* ---------------------------------------------------------------- C8
\* C8: galaxy_install(directory, requirements_file) returns exactly the
\* pipeline: from alpine/ansible:latest, mount the directory at /work, set the
\* working directory to /work, run ansible-galaxy collection install -r
\* <requirements_file>; the file is "requirements.yml" when omitted; nothing
\* is run or checked before the container is returned, and it has no
\* ansible-playbook step.
C8_GalaxyInstallPipeline ==
    (call.fn = "galaxy_install" /\ pc = "returned") =>
        /\ container
             = << [op |-> "from_", args |-> <<"alpine/ansible:latest">>,
                   secret |-> 0],
                  [op |-> "with_mounted_directory",
                   args |-> <<"/work", call.directory>>, secret |-> 0],
                  [op |-> "with_workdir", args |-> <<"/work">>, secret |-> 0],
                  [op |-> "with_exec",
                   args |-> <<"ansible-galaxy", "collection", "install", "-r",
                              call.requirements_file>>,
                   secret |-> 0] >>
        /\ call.defaulted => call.requirements_file = "requirements.yml"
        /\ result = "container"
        /\ ran = <<>> /\ ip = 0
        /\ \A k \in 1..Len(container) : container[k].args[1] # "ansible-playbook"

\* a container returned for an omitted requirements file
C8_Witness ==
    /\ call.fn = "galaxy_install"
    /\ pc = "returned"
    /\ call.defaulted

\* ---------------------------------------------------------------- C9
\* C9: given a requirements file and an SSH key, the ansible-galaxy install
\* runs before every staging step: when it runs, and if it fails,
\* ~/.ssh/ansible_id_ecdsa does not exist, the secret is not mounted and no
\* staging process has run.
C9_InstallBeforeStaging ==
    (InRunPlaybook /\ call.requirements_file # "" /\ call.ssh_private_key.given) =>
        /\ \A k \in 1..Len(container) :
              container[k].args[1] = "ansible-galaxy"
                => \A j \in 1..k : /\ container[j].op # "with_mounted_secret"
                                    /\ container[j].args[1] \notin {"mkdir", "cp", "chmod"}
        /\ (GalaxyRuns \/ (Failed /\ ran[Len(ran)].argv[1] = "ansible-galaxy")) =>
              /\ ~Exists(KeyPath)
              /\ ~Mounted(StagingPath)
              /\ \A j \in 1..Len(ran) :
                    ran[j].argv[1] \notin {"mkdir", "cp", "chmod"}

\* the install is about to run in a call that has a key to stage
C9_Witness ==
    /\ InRunPlaybook
    /\ GalaxyRuns
    /\ call.ssh_private_key.given

\* --------------------------------------------------------------- C10
SecretMounts == {m \in mounts : m.kind = "secret"}
MountStep == Len(container) - 3

\* C10: the staging is never undone: from the step that mounts the secret at
\* /tmp/ssh_key on, the secret stays mounted there, so when the playbook step
\* runs it is readable at /tmp/ssh_key beside the copy at
\* ~/.ssh/ansible_id_ecdsa; and with no SSH key, no step mounts a secret,
\* creates ~/.ssh or changes permissions.
C10_StagingKept ==
    InRunPlaybook =>
      IF call.ssh_private_key.given
      THEN /\ ip >= MountStep =>
                 \E m \in mounts : /\ m.path = StagingPath
                                    /\ m.kind = "secret"
                                    /\ m.size = call.ssh_private_key.size
           /\ (PlaybookRuns \/ pc = "done") =>
                 Mounted(StagingPath) /\ Exists(KeyPath)
      ELSE /\ \A k \in 1..Len(container) :
                 /\ container[k].op # "with_mounted_secret"
                 /\ container[k].args[1] \notin {"mkdir", "chmod", "cp"}
           /\ SecretMounts = {}
           /\ files = {}

\* the call is over and the secret is still mounted
C10_Witness ==
    /\ InRunPlaybook
    /\ pc = "done"
    /\ call.ssh_private_key.given
    /\ Mounted(StagingPath)

====
